---- MODULE Spec2Model ----
(***************************************************************************)
(* Model of provider/jira/jira.go: the JIRA notification provider.         *)
(*                                                                         *)
(* One invocation of Send or GetOptValues is in progress at a time (the    *)
(* provider holds no state between invocations).  An invocation is cut     *)
(* into steps at its remote calls: a step issues a call to the Remote      *)
(* Client, the next step receives the reply the Remote Client chose.       *)
(* `calls` and `replies` record what the Remote Client has seen and        *)
(* answered during the current invocation.                                 *)
(*                                                                         *)
(* Go values that can be nil carry a field `nil`; a nil slice and an       *)
(* empty slice are different values, as are a nil map and an empty map.    *)
(* The notifier passed to Send and the secret passed to GetOptValues are   *)
(* non-nil pointers (the code dereferences them unconditionally).          *)
(***************************************************************************)
EXTENDS Integers, Sequences, FiniteSets, TLC

VARIABLES
    op,            \* the invocation in progress: "none", "Send", "GetOptValues"
    pc,            \* position: idle, createIssue, sites, issueTypes, projects, done
    cancelled,     \* the caller's context.Context has been cancelled / timed out
    body,          \* Send: the raw body
    notifier,      \* Send: the notifier (its Config)
    secret,        \* GetOptValues: the secret
    payload,       \* Send: the validated payload
    calls,         \* remote calls issued by this invocation, in order
    replies,       \* replies received by this invocation, in order
    resources,     \* GetOptValues: *accessibleResourcesResponse
    idx,           \* GetOptValues: position of the range loop over the sites
    sites,         \* GetOptValues: local `sites`
    siteOptValues, \* GetOptValues: local `siteOptValues`
    issueTypes,    \* GetOptValues: local `issueTypes` of the current iteration
    ret            \* the values returned to the caller

vars == <<op, pc, cancelled, body, notifier, secret, payload, calls, replies,
          resources, idx, sites, siteOptValues, issueTypes, ret>>

-----------------------------------------------------------------------------
(* Bounds *)

MaxSites == 2

-----------------------------------------------------------------------------
(* Errors *)

NoErr == [nil |-> TRUE]

\* errFailedBodyValidation(message): a domain.IError built by the body
\* validation constructor, carrying the message.
errFailedBodyValidation(message) ==
    [nil |-> FALSE, ctor |-> "errFailedBodyValidation", msg |-> message]

\* errFailedOptsValidation(message)
errFailedOptsValidation(message) ==
    [nil |-> FALSE, ctor |-> "errFailedOptsValidation", msg |-> message]

\* Errors the Remote Client can answer with (opaque to the provider).
RemoteErrs ==
    { [nil |-> FALSE, ctor |-> "client", msg |-> m] : m \in {"e1", "e2"} }

-----------------------------------------------------------------------------
(* Inbound values *)

\* A JSON / generic value as it appears in the body or in the option map.
JAbsent == [t |-> "absent"]
JNull   == [t |-> "null"]
JNum    == [t |-> "number"]
JStr(s) == [t |-> "string", v |-> s]
JObj(c) == [t |-> "object", v |-> c]

\* Raw bodies: bytes that are not JSON, or a JSON object with (possibly
\* absent, null or wrongly typed) members summary and description.
Malformed == [wf |-> FALSE]

Bodies ==
    {Malformed} \cup
    { [wf |-> TRUE, summary |-> s, description |-> d] :
        s \in {JAbsent, JNull, JNum, JStr(""), JStr("Bug")},
        d \in {JAbsent, JNull, JStr("text"), JObj("empty"), JObj("doc")} }

\* domain.NotifierSecret pointers.
NilSecret == [nil |-> TRUE]
Secrets == { [nil |-> FALSE, Token |-> t] : t \in {"", "tok"} }

\* domain.NotifierConfiguration pointers: nil, or Opts (the generic option
\* map) and Secret.
NilConfig == [nil |-> TRUE]

OptMaps ==
    { [project_key |-> pk, issue_type |-> it, cloud_id |-> cid] :
        pk  \in {JAbsent, JNum, JStr(""), JStr("OPS")},
        it  \in {JAbsent, JNum, JStr(""), JStr("Bug")},
        cid \in {JAbsent, JNum, JStr(""), JStr("site1")} }

Configs ==
    {NilConfig} \cup
    { [nil |-> FALSE, Opts |-> m, Secret |-> s] :
        m \in OptMaps, s \in {NilSecret} \cup Secrets }

-----------------------------------------------------------------------------
(* Payload *)

NilDescription == [nil |-> TRUE]

\* new(Payload): the zero value.
ZeroPayload == [Summary |-> "", Description |-> NilDescription]

\* json.Unmarshal of one member into a string field: absent and null leave
\* the field alone, a string sets it, anything else is a type error.
UnmarshalString(j, old) ==
    IF j.t \in {"absent", "null"} THEN [err |-> FALSE, v |-> old]
    ELSE IF j.t = "string" THEN [err |-> FALSE, v |-> j.v]
    ELSE [err |-> TRUE, v |-> old]

\* json.Unmarshal of one member into a map[string]interface{} field.
UnmarshalMap(j, old) ==
    IF j.t = "absent" THEN [err |-> FALSE, v |-> old]
    ELSE IF j.t = "null" THEN [err |-> FALSE, v |-> NilDescription]
    ELSE IF j.t = "object" THEN [err |-> FALSE, v |-> [nil |-> FALSE, doc |-> j.v]]
    ELSE [err |-> TRUE, v |-> old]

\* Payload.Extract: the error and the payload after the call.
PayloadExtract(b) ==
    IF ~b.wf
    THEN [err |-> errFailedBodyValidation("json: syntax error"), p |-> ZeroPayload]
    ELSE LET s == UnmarshalString(b.summary, ZeroPayload.Summary)
             d == UnmarshalMap(b.description, ZeroPayload.Description)
             p == [Summary |-> s.v, Description |-> d.v]
         IN  IF s.err \/ d.err
             THEN [err |-> errFailedBodyValidation("json: cannot unmarshal"), p |-> p]
             ELSE [err |-> NoErr, p |-> p]

\* Payload.Validate
PayloadValidate(p) ==
    IF p.Summary = ""
    THEN errFailedBodyValidation(
             "generated payload does not contaion mandatory param summary")
    ELSE IF p.Description.nil
    THEN errFailedBodyValidation(
             "generated payload does not contain mandatory param description")
    ELSE NoErr

-----------------------------------------------------------------------------
(* Opts *)

\* new(Opts): the zero value.
ZeroOpts == [Secret |-> NilSecret, ProjectKey |-> "", IssueType |-> "", CloudID |-> ""]

\* mapstructure.Decode of one entry of the option map into a string field:
\* a missing key or a nil value leaves the field alone, a string sets it,
\* any other type is an error (no weak typing).
DecodeString(j, old) ==
    IF j.t \in {"absent", "null"} THEN [err |-> FALSE, v |-> old]
    ELSE IF j.t = "string" THEN [err |-> FALSE, v |-> j.v]
    ELSE [err |-> TRUE, v |-> old]

\* Opts.Extract reporting an absent configuration as a body error.
OptsExtract_mut(c) ==
    IF c.nil
    THEN [err |-> errFailedBodyValidation("notifier config emtpy"), o |-> ZeroOpts]
    ELSE LET pk  == DecodeString(c.Opts.project_key, ZeroOpts.ProjectKey)
             it  == DecodeString(c.Opts.issue_type, ZeroOpts.IssueType)
             cid == DecodeString(c.Opts.cloud_id, ZeroOpts.CloudID)
             o   == [Secret |-> ZeroOpts.Secret, ProjectKey |-> pk.v,
                     IssueType |-> it.v, CloudID |-> cid.v]
         IN  IF pk.err \/ it.err \/ cid.err
             THEN [err |-> errFailedOptsValidation("failed to decode configuration"),
                   o |-> o]
             ELSE [err |-> NoErr, o |-> [o EXCEPT !.Secret = c.Secret]]

\* Opts.Extract: the error and the options after the call.
OptsExtract(c) ==
    IF c.nil
    THEN [err |-> errFailedOptsValidation("notifier config emtpy"), o |-> ZeroOpts]
    ELSE LET pk  == DecodeString(c.Opts.project_key, ZeroOpts.ProjectKey)
             it  == DecodeString(c.Opts.issue_type, ZeroOpts.IssueType)
             cid == DecodeString(c.Opts.cloud_id, ZeroOpts.CloudID)
             o   == [Secret |-> ZeroOpts.Secret, ProjectKey |-> pk.v,
                     IssueType |-> it.v, CloudID |-> cid.v]
         IN  IF pk.err \/ it.err \/ cid.err
             THEN [err |-> errFailedOptsValidation("failed to decode configuration"),
                   o |-> o]
             ELSE [err |-> NoErr, o |-> [o EXCEPT !.Secret = c.Secret]]

\* Opts.Validate without the check of the token.
OptsValidate_mut(o) ==
    IF o.IssueType = "" \/ o.ProjectKey = ""
    THEN errFailedOptsValidation("issue_type or project_key is emtpy")
    ELSE IF o.Secret.nil
    THEN errFailedOptsValidation("secret not defined in configuration")
    ELSE NoErr

\* Opts.Validate (the receiver is never nil in Send)
OptsValidate(o) ==
    IF o.IssueType = "" \/ o.ProjectKey = ""
    THEN errFailedOptsValidation("issue_type or project_key is emtpy")
    ELSE IF o.Secret.nil \/ o.Secret.Token = ""
    THEN errFailedOptsValidation("secret not defined in configuration")
    ELSE NoErr

-----------------------------------------------------------------------------
(* Send *)

NoRequest == [nil |-> TRUE]

\* The request with the project key and the issue type exchanged.
CreateIssueRequest_mut(p, o) ==
    [nil         |-> FALSE,
     Project     |-> o.IssueType,
     IssueType   |-> o.ProjectKey,
     Summary     |-> p.Summary,
     Description |-> p.Description,
     CloudID     |-> o.CloudID,
     BearerToken |-> o.Secret.Token]

\* The CreateIssueRequest built from the payload and the options.
CreateIssueRequest(p, o) ==
    [nil         |-> FALSE,
     Project     |-> o.ProjectKey,
     IssueType   |-> o.IssueType,
     Summary     |-> p.Summary,
     Description |-> p.Description,
     CloudID     |-> o.CloudID,
     BearerToken |-> o.Secret.Token]

\* The part of Send before the remote call: the four local checks in
\* order, each returning early, then the request.
SendLocal(b, c) ==
    LET pe == PayloadExtract(b) IN
    IF ~pe.err.nil THEN [err |-> pe.err, p |-> pe.p, request |-> NoRequest]
    ELSE LET pv == PayloadValidate(pe.p) IN
    IF ~pv.nil THEN [err |-> pv, p |-> pe.p, request |-> NoRequest]
    ELSE LET oe == OptsExtract(c) IN
    IF ~oe.err.nil THEN [err |-> oe.err, p |-> pe.p, request |-> NoRequest]
    ELSE LET ov == OptsValidate(oe.o) IN
    IF ~ov.nil THEN [err |-> ov, p |-> pe.p, request |-> NoRequest]
    ELSE [err |-> NoErr, p |-> pe.p, request |-> CreateIssueRequest(pe.p, oe.o)]

NilMessage == [nil |-> TRUE]
NilOptValues == [nil |-> TRUE]
NoRet == [msg |-> NilMessage, optValues |-> NilOptValues, err |-> NoErr]

\* ksuid.New().String()
KSUIDs == {"k1", "k2"}

\* Responses of a successful create-issue call (opaque).
CreateIssueResponses == {"r1", "r2"}

\* A Message whose Ok is left at its zero value.
Message_mut(id, p, response) ==
    [nil |-> FALSE, ID |-> id, Ok |-> FALSE, Payload |-> p,
     ProviderResponse |-> response]

\* The domain.Message Send returns on success.
Message(id, p, response) ==
    [nil |-> FALSE, ID |-> id, Ok |-> TRUE, Payload |-> p,
     ProviderResponse |-> response]

\* Send wrapping the error of CreateIssue into a local error.
SendReturn_mut(reply, id, p) ==
    IF ~reply.err.nil
    THEN [msg |-> NilMessage, optValues |-> NilOptValues,
          err |-> errFailedBodyValidation(reply.err.msg)]
    ELSE [msg |-> Message(id, p, reply.val), optValues |-> NilOptValues,
          err |-> NoErr]

\* What Send returns once CreateIssue has answered.
SendReturn(reply, id, p) ==
    IF ~reply.err.nil
    THEN [msg |-> NilMessage, optValues |-> NilOptValues, err |-> reply.err]
    ELSE [msg |-> Message(id, p, reply.val), optValues |-> NilOptValues,
          err |-> NoErr]

\* A remote call as the Remote Client sees it.
Call(name, token, cloudID, request) ==
    [name |-> name, BearerToken |-> token, CloudID |-> cloudID, request |-> request]

\* Send, up to and including the issue of the create-issue call.
SendCall ==
    /\ pc = "idle"
    /\ \E b \in Bodies, c \in Configs, ctx \in BOOLEAN :
        LET l == SendLocal(b, c) IN
        /\ op' = "Send"
        /\ body' = b
        /\ notifier' = c
        /\ cancelled' = ctx
        /\ payload' = l.p
        /\ IF ~l.err.nil
           THEN /\ ret' = [msg |-> NilMessage, optValues |-> NilOptValues, err |-> l.err]
                /\ calls' = <<>>
                /\ pc' = "done"
           ELSE /\ ret' = NoRet
                /\ calls' = <<Call("CreateIssue", l.request.BearerToken,
                                   l.request.CloudID, l.request)>>
                /\ pc' = "createIssue"
    /\ UNCHANGED <<secret, replies, resources, idx, sites, siteOptValues, issueTypes>>

\* Send, from the reply of the create-issue call to its return.
SendReply ==
    /\ pc = "createIssue"
    /\ \E reply \in { [err |-> e, val |-> "none"] : e \in RemoteErrs }
                    \cup { [err |-> NoErr, val |-> r] : r \in CreateIssueResponses },
          id \in KSUIDs :
        /\ replies' = Append(replies, reply)
        /\ ret' = SendReturn(reply, id, payload)
    /\ pc' = "done"
    /\ UNCHANGED <<op, cancelled, body, notifier, secret, payload, calls,
                   resources, idx, sites, siteOptValues, issueTypes>>

-----------------------------------------------------------------------------
(* GetOptValues *)

\* Go slices and maps: nil or allocated.
NilSlice == [nil |-> TRUE, elems |-> <<>>]
EmptySlice == [nil |-> FALSE, elems |-> <<>>]

\* append(s, x)
GoAppend(s, x) == [nil |-> FALSE, elems |-> Append(s.elems, x)]

NoEntries == [k \in {} |-> EmptySlice]
NilMap == [nil |-> TRUE, at |-> NoEntries]
EmptyMap == [nil |-> FALSE, at |-> NoEntries]

\* m[k] = v
MapSet(m, k, v) ==
    [nil |-> FALSE,
     at  |-> [x \in (DOMAIN m.at) \cup {k} |-> IF x = k THEN v ELSE m.at[x]]]

\* What the Remote Client can answer.  Two accessible resources may carry
\* the same id.
SiteVals ==
    { [ID |-> "s1", Name |-> "A"], [ID |-> "s2", Name |-> "B"],
      [ID |-> "s1", Name |-> "C"] }

SiteLists == UNION { [1..n -> SiteVals] : n \in 0..MaxSites }

Bug  == [ID |-> "10001", Name |-> "Bug"]
Task == [ID |-> "10002", Name |-> "Task"]
IssueTypeLists == { <<>>, <<Bug>>, <<Task, Bug>> }

Ops == [ID |-> "1", Key |-> "OPS", Name |-> "Ops"]
Dev == [ID |-> "2", Key |-> "DEV", Name |-> "Dev"]
ProjectLists == { <<>>, <<Ops>>, <<Dev, Ops>> }

RemoteReplies(values) ==
    { [err |-> e, val |-> <<>>] : e \in RemoteErrs }
        \cup { [err |-> NoErr, val |-> v] : v \in values }

\* `var sites []map[string]string`
InitSites_mut == NilSlice

\* `sites := []map[string]string{}`
InitSites == EmptySlice

\* `siteOptValues := map[string]map[string][]map[string]string{}`
InitSiteOptValues == EmptyMap

\* The entry of a site in `sites`.
SiteEntry(site) == [id |-> site.ID, name |-> site.Name]

\* The map appended to `issueTypes` for one issue type.
IssueTypeEntry(it) == [id |-> it.ID, name |-> it.Name]

\* The loop over *issueTypesResponse building `issueTypes`.
RECURSIVE IssueTypeEntries(_)
IssueTypeEntries(list) ==
    IF list = <<>> THEN EmptySlice
    ELSE GoAppend(IssueTypeEntries(SubSeq(list, 1, Len(list) - 1)),
                  IssueTypeEntry(list[Len(list)]))

\* The project's internal id in place of its key.
ProjectKeyEntry_mut(p) == [id |-> p.ID, name |-> p.Name]

\* The map appended to `projectKeys` for one project.
ProjectKeyEntry(p) == [id |-> p.Key, name |-> p.Name]

\* The loop over projects.Values building `projectKeys`.
RECURSIVE ProjectKeyEntries(_)
ProjectKeyEntries(list) ==
    IF list = <<>> THEN EmptySlice
    ELSE GoAppend(ProjectKeyEntries(SubSeq(list, 1, Len(list) - 1)),
                  ProjectKeyEntry(list[Len(list)]))

\* The value stored under siteOptValues[site.ID].
SiteOptValue(projectKeys, its) ==
    [project_key |-> projectKeys, issue_type |-> its]

\* The map returned on success (field rel is the key "_rel").
OptValues(s, sov) ==
    [nil |-> FALSE, cloud_id |-> s, rel |-> [cloud_id |-> sov]]

\* The error returned together with what was accumulated so far.
FailReturn_mut(err, s, sov) ==
    [msg |-> NilMessage, optValues |-> OptValues(s, sov), err |-> err]

\* `return nil, err`
FailReturn(err, s, sov) ==
    [msg |-> NilMessage, optValues |-> NilOptValues, err |-> err]

AccessibleResourcesCall(token) ==
    Call("GetAccessibleResources", token, "", NoRequest)

IssueTypesCall(token, site) ==
    Call("GetIssueTypes", token, site.ID, NoRequest)

\* The project lookup addressed by the site's name.
ProjectsCall_mut(token, site) ==
    Call("GetProjects", token, site.Name, NoRequest)

ProjectsCall(token, site) ==
    Call("GetProjects", token, site.ID, NoRequest)

\* GetOptValues, up to and including the issue of the list-sites call.
GetOptValuesCall ==
    /\ pc = "idle"
    /\ \E s \in Secrets, ctx \in BOOLEAN :
        /\ secret' = s
        /\ cancelled' = ctx
        /\ calls' = <<AccessibleResourcesCall(s.Token)>>
    /\ op' = "GetOptValues"
    /\ pc' = "sites"
    /\ UNCHANGED <<body, notifier, payload, replies, resources, idx, sites,
                   siteOptValues, issueTypes, ret>>

\* The head of the range loop with i sites done: either the loop is over
\* and GetOptValues returns, or the next site is recorded and its
\* issue-type lookup is issued.
LoopHead(res, i, s, sov) ==
    IF i >= Len(res)
    THEN /\ sites' = s
         /\ ret' = [msg |-> NilMessage, optValues |-> OptValues(s, sov), err |-> NoErr]
         /\ pc' = "done"
         /\ UNCHANGED <<idx, calls>>
    ELSE /\ sites' = GoAppend(s, SiteEntry(res[i + 1]))
         /\ idx' = i + 1
         /\ calls' = Append(calls, IssueTypesCall(secret.Token, res[i + 1]))
         /\ pc' = "issueTypes"
         /\ UNCHANGED ret

\* From the reply of the list-sites call to the next call or the return.
SitesReply ==
    /\ pc = "sites"
    /\ \E reply \in RemoteReplies(SiteLists) :
        /\ replies' = Append(replies, reply)
        /\ IF ~reply.err.nil
           THEN /\ ret' = FailReturn(reply.err, sites, siteOptValues)
                /\ pc' = "done"
                /\ UNCHANGED <<resources, idx, sites, siteOptValues, calls>>
           ELSE /\ resources' = reply.val
                /\ siteOptValues' = InitSiteOptValues
                /\ LoopHead(reply.val, 0, InitSites, InitSiteOptValues)
    /\ UNCHANGED <<op, cancelled, body, notifier, secret, payload, issueTypes>>

\* From the reply of a site's issue-type lookup to the next call or the
\* return.
IssueTypesReply ==
    /\ pc = "issueTypes"
    /\ \E reply \in RemoteReplies(IssueTypeLists) :
        /\ replies' = Append(replies, reply)
        /\ IF ~reply.err.nil
           THEN /\ ret' = FailReturn(reply.err, sites, siteOptValues)
                /\ pc' = "done"
                /\ UNCHANGED <<issueTypes, calls>>
           ELSE /\ issueTypes' = IssueTypeEntries(reply.val)
                /\ calls' = Append(calls, ProjectsCall(secret.Token, resources[idx]))
                /\ pc' = "projects"
                /\ UNCHANGED ret
    /\ UNCHANGED <<op, cancelled, body, notifier, secret, payload, resources,
                   idx, sites, siteOptValues>>

\* From the reply of a site's project lookup to the next call or the
\* return.
ProjectsReply ==
    /\ pc = "projects"
    /\ \E reply \in RemoteReplies(ProjectLists) :
        /\ replies' = Append(replies, reply)
        /\ IF ~reply.err.nil
           THEN /\ ret' = FailReturn(reply.err, sites, siteOptValues)
                /\ pc' = "done"
                /\ UNCHANGED <<idx, sites, siteOptValues, calls>>
           ELSE LET sov == MapSet(siteOptValues, resources[idx].ID,
                                  SiteOptValue(ProjectKeyEntries(reply.val),
                                               issueTypes))
                IN  /\ siteOptValues' = sov
                    /\ LoopHead(resources, idx, sites, sov)
    /\ UNCHANGED <<op, cancelled, body, notifier, secret, payload, resources,
                   issueTypes>>

-----------------------------------------------------------------------------
(* The caller *)

NoBody == Malformed

\* The caller's context is cancelled (or its deadline passes) while the
\* invocation is in progress.  Neither Send nor GetOptValues reads it.
Cancel ==
    /\ pc \notin {"idle", "done"}
    /\ ~cancelled
    /\ cancelled' = TRUE
    /\ UNCHANGED <<op, pc, body, notifier, secret, payload, calls, replies,
                   resources, idx, sites, siteOptValues, issueTypes, ret>>

Init ==
    /\ op = "none"
    /\ pc = "idle"
    /\ cancelled = FALSE
    /\ body = NoBody
    /\ notifier = NilConfig
    /\ secret = NilSecret
    /\ payload = ZeroPayload
    /\ calls = <<>>
    /\ replies = <<>>
    /\ resources = <<>>
    /\ idx = 0
    /\ sites = NilSlice
    /\ siteOptValues = NilMap
    /\ issueTypes = NilSlice
    /\ ret = NoRet

\* The invocation has returned; the provider keeps nothing of it.
Return ==
    /\ pc = "done"
    /\ op' = "none"
    /\ pc' = "idle"
    /\ cancelled' = FALSE
    /\ body' = NoBody
    /\ notifier' = NilConfig
    /\ secret' = NilSecret
    /\ payload' = ZeroPayload
    /\ calls' = <<>>
    /\ replies' = <<>>
    /\ resources' = <<>>
    /\ idx' = 0
    /\ sites' = NilSlice
    /\ siteOptValues' = NilMap
    /\ issueTypes' = NilSlice
    /\ ret' = NoRet

Next ==
    \/ SendCall
    \/ SendReply
    \/ GetOptValuesCall
    \/ SitesReply
    \/ IssueTypesReply
    \/ ProjectsReply
    \/ Cancel
    \/ Return

Spec == Init /\ [][Next]_vars

-----------------------------------------------------------------------------
(* Properties of Send *)

\* The conditions of the inputs, read off the raw body and configuration.
BodyParses(b) ==
    /\ b.wf
    /\ b.summary.t \in {"absent", "null", "string"}
    /\ b.description.t \in {"absent", "null", "object"}

SummaryOf(b) == IF b.summary.t = "string" THEN b.summary.v ELSE ""

DescriptionOf(b) ==
    IF b.description.t = "object"
    THEN [nil |-> FALSE, doc |-> b.description.v]
    ELSE [nil |-> TRUE]

BodyValid(b) ==
    /\ BodyParses(b)
    /\ SummaryOf(b) # ""
    /\ ~DescriptionOf(b).nil

OptOf(j) == IF j.t = "string" THEN j.v ELSE ""

ConfigDecodes(c) ==
    /\ ~c.nil
    /\ \A j \in {c.Opts.project_key, c.Opts.issue_type, c.Opts.cloud_id} :
          j.t \in {"absent", "null", "string"}

ConfigValid(c) ==
    /\ ConfigDecodes(c)
    /\ OptOf(c.Opts.project_key) # ""
    /\ OptOf(c.Opts.issue_type) # ""
    /\ ~c.Secret.nil
    /\ c.Secret.Token # ""

LocalCtors == {"errFailedBodyValidation", "errFailedOptsValidation"}

\* C1: a Send whose body or configuration fails one of the four local
\* checks ends in a local error and has issued no remote call; a Send that
\* ended in a local error has issued no remote call.
C1_NoRemoteCallOnLocalError ==
    op = "Send" =>
        /\ ~(BodyValid(body) /\ ConfigValid(notifier)) =>
              /\ calls = <<>>
              /\ pc = "done"
              /\ ~ret.err.nil
              /\ ret.err.ctor \in LocalCtors
        /\ (pc = "done" /\ ~ret.err.nil /\ ret.err.ctor \in LocalCtors) =>
              calls = <<>>

\* The last of the four checks fails (the token is empty): no call.
C1_Witness ==
    /\ op = "Send"
    /\ pc = "done"
    /\ BodyValid(body)
    /\ ConfigDecodes(notifier)
    /\ ~notifier.Secret.nil
    /\ notifier.Secret.Token = ""
    /\ OptOf(notifier.Opts.project_key) # ""
    /\ OptOf(notifier.Opts.issue_type) # ""
    /\ ~ret.err.nil
    /\ calls = <<>>

\* C2: with a valid payload and valid options (whatever the cloud id), Send
\* issues exactly one create-issue call carrying the options' project key,
\* issue type and cloud id, the payload's summary and description and the
\* secret's token, and it can only fail with the error of that call.
C2_ValidInputReachesCreateIssue ==
    (op = "Send" /\ BodyValid(body) /\ ConfigValid(notifier)) =>
        /\ Len(calls) = 1
        /\ calls[1].name = "CreateIssue"
        /\ ~calls[1].request.nil
        /\ calls[1].request.Project = notifier.Opts.project_key.v
        /\ calls[1].request.IssueType = notifier.Opts.issue_type.v
        /\ calls[1].request.CloudID = OptOf(notifier.Opts.cloud_id)
        /\ calls[1].request.Summary = body.summary.v
        /\ calls[1].request.Description = DescriptionOf(body)
        /\ calls[1].request.BearerToken = notifier.Secret.Token
        /\ (pc = "done" /\ ~ret.err.nil) =>
              /\ Len(replies) = 1
              /\ ret.err = replies[1].err

\* A valid Send with an empty cloud id has succeeded.
C2_Witness ==
    /\ op = "Send"
    /\ pc = "done"
    /\ BodyValid(body)
    /\ ConfigValid(notifier)
    /\ OptOf(notifier.Opts.cloud_id) = ""
    /\ ret.err.nil
    /\ Len(calls) = 1

\* C3: Send returns either an error and no Message or a Message and no
\* error; a Message has ok = true, a generated id, the payload extracted
\* from the body and the response of the create-issue call, and is returned
\* only after that call succeeded.
C3_MessageXorError ==
    (op = "Send" /\ pc = "done") =>
        /\ ret.msg.nil # ret.err.nil
        /\ ~ret.msg.nil =>
              /\ ret.msg.Ok = TRUE
              /\ ret.msg.ID \in KSUIDs
              /\ ret.msg.Payload =
                    [Summary |-> SummaryOf(body), Description |-> DescriptionOf(body)]
              /\ BodyValid(body)
              /\ Len(calls) = 1
              /\ Len(replies) = 1
              /\ replies[1].err.nil
              /\ ret.msg.ProviderResponse = replies[1].val

\* Send has returned a Message.
C3_Witness ==
    /\ op = "Send"
    /\ pc = "done"
    /\ ~ret.msg.nil
    /\ ret.msg.ProviderResponse = "r2"

\* C4: when the create-issue call fails Send returns that very error and no
\* Message; a Send never issues more than one create-issue call.
C4_RemoteErrorUnchanged ==
    op = "Send" =>
        /\ Len(calls) <= 1
        /\ (pc = "done" /\ replies # <<>> /\ ~replies[1].err.nil) =>
              /\ ret.err = replies[1].err
              /\ ret.msg.nil
              /\ Len(calls) = 1
              /\ Len(replies) = 1

\* The create-issue call has failed and Send has returned.
C4_Witness ==
    /\ op = "Send"
    /\ pc = "done"
    /\ Len(replies) = 1
    /\ ~replies[1].err.nil
    /\ ~ret.err.nil

\* The kinds the two validators give their errors.
ValidationKinds == {PayloadValidate(ZeroPayload).ctor, OptsValidate(ZeroOpts).ctor}

-----------------------------------------------------------------------------
(* Properties of GetOptValues *)

\* The {id, name} pairs of a list of sites or issue types.
IdNamePairs(list) == [j \in 1..Len(list) |-> [id |-> list[j].ID, name |-> list[j].Name]]

\* The {id: key, name} pairs of a list of projects.
KeyNamePairs(list) == [j \in 1..Len(list) |-> [id |-> list[j].Key, name |-> list[j].Name]]

\* The sites the Remote Client returned to this invocation.
ReturnedSites == replies[1].val

\* C5: the first failing remote call ends GetOptValues with that call's
\* error and no result, and no call is issued after it.
C5_FailFast ==
    op = "GetOptValues" =>
        \A k \in 1..Len(replies) :
            ~replies[k].err.nil =>
                /\ k = Len(replies)
                /\ Len(calls) = k
                /\ pc = "done"
                /\ ret.err = replies[k].err
                /\ ret.optValues.nil
                /\ ret.msg.nil

\* The second site's project lookup has failed, after the first site was
\* fully recorded.
C5_Witness ==
    /\ op = "GetOptValues"
    /\ pc = "done"
    /\ Len(replies) = 5
    /\ ~replies[5].err.nil
    /\ DOMAIN siteOptValues.at # {}
    /\ ret.optValues.nil

\* C6: the calls of one GetOptValues are list-accessible-sites, then for
\* each site in the returned order list-issue-types and list-projects for
\* that site, each with the secret's token and the site's id; success over
\* n sites takes 1 + 2n calls, a failure at the k-th call takes k calls.
C6_CallOrder ==
    op = "GetOptValues" =>
        /\ Len(calls) >= 1
        /\ calls[1].name = "GetAccessibleResources"
        /\ calls[1].BearerToken = secret.Token
        /\ Len(replies) <= Len(calls)
        /\ Len(calls) <= Len(replies) + 1
        /\ \A k \in 2..Len(calls) :
              /\ replies[1].err.nil
              /\ k \div 2 <= Len(ReturnedSites)
              /\ calls[k].name = IF k % 2 = 0 THEN "GetIssueTypes" ELSE "GetProjects"
              /\ calls[k].BearerToken = secret.Token
              /\ calls[k].CloudID = ReturnedSites[k \div 2].ID
        /\ (pc = "done" /\ ret.err.nil) =>
              Len(calls) = 1 + 2 * Len(ReturnedSites)
        /\ (pc = "done" /\ ~ret.err.nil) =>
              /\ Len(calls) = Len(replies)
              /\ ~replies[Len(replies)].err.nil
              /\ \A k \in 1..(Len(replies) - 1) : replies[k].err.nil

\* A GetOptValues over two sites has succeeded.
C6_Witness ==
    /\ op = "GetOptValues"
    /\ pc = "done"
    /\ ret.err.nil
    /\ Len(ReturnedSites) = 2
    /\ Len(calls) = 5

\* C7: with zero accessible sites GetOptValues succeeds with an empty
\* (non-nil) cloud_id list and an empty (non-nil) _rel.cloud_id mapping,
\* after exactly one remote call.
C7_ZeroSites ==
    (op = "GetOptValues" /\ pc = "done" /\ replies[1].err.nil
        /\ ReturnedSites = <<>>) =>
        /\ ret.err.nil
        /\ ~ret.optValues.nil
        /\ ~ret.optValues.cloud_id.nil
        /\ ret.optValues.cloud_id.elems = <<>>
        /\ ~ret.optValues.rel.cloud_id.nil
        /\ DOMAIN ret.optValues.rel.cloud_id.at = {}
        /\ Len(calls) = 1

\* GetOptValues has returned for zero sites.
C7_Witness ==
    /\ op = "GetOptValues"
    /\ pc = "done"
    /\ replies[1].err.nil
    /\ ReturnedSites = <<>>
    /\ ~ret.optValues.nil

\* The top-level list holds the {id, name} of each returned site, in order.
SitesListed ==
    /\ ~ret.optValues.cloud_id.nil
    /\ ret.optValues.cloud_id.elems = IdNamePairs(ReturnedSites)

\* The entry under site i's id holds the lists returned for site i.
EntryIsOfSite(i) ==
    LET rel == ret.optValues.rel.cloud_id IN
    /\ ReturnedSites[i].ID \in DOMAIN rel.at
    /\ ~rel.at[ReturnedSites[i].ID].issue_type.nil
    /\ rel.at[ReturnedSites[i].ID].issue_type.elems = IdNamePairs(replies[2 * i].val)
    /\ ~rel.at[ReturnedSites[i].ID].project_key.nil
    /\ rel.at[ReturnedSites[i].ID].project_key.elems =
          KeyNamePairs(replies[2 * i + 1].val)

\* C8 as stated: on success, every returned site is listed at its position
\* and the entry under its id holds the issue types and projects returned
\* for that site.
C8_EverySiteHasItsEntry ==
    (op = "GetOptValues" /\ pc = "done" /\ ret.err.nil) =>
        /\ SitesListed
        /\ \A i \in 1..Len(ReturnedSites) : EntryIsOfSite(i)

\* C8 amended: on success, every returned site is listed at its position,
\* _rel.cloud_id has exactly the returned site ids as keys, and the entry
\* under an id holds the issue types and projects returned for the last
\* returned site with that id (for a site whose id no later site repeats,
\* its own).
C8_LastSiteOfAnIdHasItsEntry ==
    (op = "GetOptValues" /\ pc = "done" /\ ret.err.nil) =>
        /\ SitesListed
        /\ ~ret.optValues.rel.cloud_id.nil
        /\ DOMAIN ret.optValues.rel.cloud_id.at =
              { ReturnedSites[i].ID : i \in 1..Len(ReturnedSites) }
        /\ \A i \in 1..Len(ReturnedSites) :
              (\A j \in (i + 1)..Len(ReturnedSites) :
                    ReturnedSites[j].ID # ReturnedSites[i].ID)
                  => EntryIsOfSite(i)

\* A GetOptValues over two sites with different ids, with issue types and
\* projects, has succeeded.
C8_Witness ==
    /\ op = "GetOptValues"
    /\ pc = "done"
    /\ ret.err.nil
    /\ Len(ReturnedSites) = 2
    /\ ReturnedSites[1].ID # ReturnedSites[2].ID
    /\ Len(replies[3].val) = 2
    /\ Len(replies[4].val) = 1

-----------------------------------------------------------------------------
(* Cancellation *)

\* C9: once the caller's cancellation or timeout signal has fired, the
\* invocation issues no further remote call.
C9_NoCallAfterCancel ==
    [][cancelled => Len(calls') <= Len(calls)]_vars

====
